---- MODULE Spec2Model ----
(***************************************************************************)
(* Binary-search service: a sorted integer array kept in a key-value       *)
(* store as JSON text (app/database.py), the manager that generates,       *)
(* loads and regenerates it, the binary search over it and the in-memory   *)
(* search statistics (app/services.py), driven by the request handlers of  *)
(* app/main.py running as coroutines on one event loop.                    *)
(*                                                                         *)
(* Python lists are indexed from 0; TLA+ sequences from 1.  Indices named  *)
(* left, right, mid and index keep the Python numbering and At(arr, i)     *)
(* reads arr[i] in the Python sense.                                       *)
(***************************************************************************)
EXTENDS Integers, Sequences, FiniteSets, TLC

\* ------------------------------------------------------------------ bounds
\* Largest array length drawn for the pure search runs and asked of reset.
MaxLen == 3
\* Array values of the pure search runs lie in 0..MaxVal; reset bounds too.
MaxVal == 3
\* Calendar days the clock can reach.
MaxDay == 2
\* Elapsed times measured for a search, in milliseconds: 1..MaxSample.
MaxSample == 1
\* The explicit size, the largest explicit bound and the explicit seed that
\* reset requests carry.
ResetSize == 2
ResetMaxVal == 2
ResetSeed == 7
\* Searches recorded in one run of the statistics workload.
MaxRecords == 1002
\* Requests and restarts in one run of the concurrent service.
MaxEvents == 3
\* Requests and restarts in one run of the service taking one request at a
\* time.
MaxSeqEvents == 3

\* ------------------------------------------------------- program constants
DefaultSize == 100
DefaultMin == 1
DefaultMax == 1000
DefaultSeed == 42
WindowLimit == 1000

\* ----------------------------------------------------------- Python values
\* An optional argument: absent (None) or an integer.
NoArg == [given |-> FALSE, v |-> 0]
Arg(x) == [given |-> TRUE, v |-> x]
\* An optional bool: None, True or False.
NoBool == [given |-> FALSE, v |-> FALSE]
ArgBool(b) == [given |-> TRUE, v |-> b]
\* Python truthiness of an optional integer: None and 0 are falsy.
Truthy(p) == p.given /\ p.v # 0
\* Python's `p or d` for an optional integer p and an integer d.
OrElse(p, d) == IF Truthy(p) THEN p.v ELSE d

At(arr, i) == arr[i + 1]
Last(arr) == arr[Len(arr)]

\* min(arr) and max(arr) of a non-empty list
Min(arr) == CHOOSE x \in { arr[i] : i \in 1..Len(arr) } :
                \A i \in 1..Len(arr) : x <= arr[i]
Max(arr) == CHOOSE x \in { arr[i] : i \in 1..Len(arr) } :
                \A i \in 1..Len(arr) : arr[i] <= x

IsSorted(arr) == \A i \in 1..(Len(arr) - 1) : arr[i] <= arr[i + 1]
Occurs(arr, x) == \E i \in 1..Len(arr) : arr[i] = x

\* sorted() left out: the draws in the order they were made.
SortedNoSort(arr) == arr

\* sorted(arr), ascending
IntLess(x, y) == x < y
Sorted(arr) == SortSeq(arr, IntLess)

\* A loop that runs while left < right, and so never looks at the last
\* candidate.
RECURSIVE BSLoopStrict(_, _, _, _, _)
BSLoopStrict(arr, target, left, right, probes) ==
    IF left < right
    THEN LET mid == (left + right) \div 2 IN
         IF At(arr, mid) = target
         THEN [index |-> mid, probes |-> probes + 1]
         ELSE IF At(arr, mid) < target
              THEN BSLoopStrict(arr, target, mid + 1, right, probes + 1)
              ELSE BSLoopStrict(arr, target, left, mid - 1, probes + 1)
    ELSE [index |-> -1, probes |-> probes]

\* ------------------------------------------------------------ binary search
\* The while loop of _binary_search from the bounds (left, right); probes
\* counts the midpoint comparisons made (one per iteration of the loop).
RECURSIVE BSLoop(_, _, _, _, _)
BSLoop(arr, target, left, right, probes) ==
    IF left <= right
    THEN LET mid == (left + right) \div 2 IN
         IF At(arr, mid) = target
         THEN [index |-> mid, probes |-> probes + 1]
         ELSE IF At(arr, mid) < target
              THEN BSLoop(arr, target, mid + 1, right, probes + 1)
              ELSE BSLoop(arr, target, left, mid - 1, probes + 1)
    ELSE [index |-> -1, probes |-> probes]

BinarySearchTrace(arr, target) == BSLoop(arr, target, 0, Len(arr) - 1, 0)

\* _binary_search(arr, target) -> index
BinarySearch(arr, target) == BinarySearchTrace(arr, target).index

Outcome(found, index, value, array) ==
    [found |-> found, index |-> index, value |-> value,
     array_size |-> Len(array), array_min |-> At(array, 0),
     array_max |-> Last(array)]

\* search() without its out-of-range early exit.
SearchTraceNoPrecheck(array, value) ==
    LET r == BinarySearchTrace(array, value) IN
    [outcome |-> Outcome(r.index # -1, r.index, value, array),
     probes |-> r.probes]

\* search() whose early exit also rejects the two end values.
SearchTraceOpenRange(array, value) ==
    IF value <= At(array, 0) \/ value >= Last(array)
    THEN [outcome |-> Outcome(FALSE, -1, value, array), probes |-> 0]
    ELSE LET r == BinarySearchTrace(array, value) IN
         [outcome |-> Outcome(r.index # -1, r.index, value, array),
          probes |-> r.probes]

\* The body of search() once the array is in hand: the outcome it returns
\* and the number of loop iterations it ran.
SearchTrace(array, value) ==
    IF value < At(array, 0) \/ value > Last(array)
    THEN [outcome |-> Outcome(FALSE, -1, value, array), probes |-> 0]
    ELSE LET r == BinarySearchTrace(array, value) IN
         [outcome |-> Outcome(r.index # -1, r.index, value, array),
          probes |-> r.probes]

SearchOutcome(array, value) == SearchTrace(array, value).outcome

\* -------------------------------------------------------------- dictionaries
\* A Python dict: the sequence of its (key, value) pairs in insertion order.
EmptyDict == << >>
HasKey(d, k) == \E i \in 1..Len(d) : d[i].key = k
\* d.get(k, default)
DictGet(d, k, default) ==
    IF HasKey(d, k)
    THEN d[CHOOSE i \in 1..Len(d) : d[i].key = k].val
    ELSE default
\* d[k] = v
DictSet(d, k, v) ==
    IF HasKey(d, k)
    THEN [i \in 1..Len(d) |-> IF d[i].key = k THEN [key |-> k, val |-> v] ELSE d[i]]
    ELSE Append(d, [key |-> k, val |-> v])

\* A JSON-serialisable scalar: a Python int or a Python str.
IntVal(n) == [t |-> "int", n |-> n, s |-> ""]
StrVal(s) == [t |-> "str", n |-> 0, s |-> s]

\* --------------------------------------------------------------------- JSON
\* JSON text is the sequence of its lexical tokens; a number token carries
\* its sign and its decimal digits, a string token its characters.  The
\* empty text << >> stands for a key the store does not hold (redis GET
\* answers None, which `if data:` treats like the empty string).
Punct(c) == [t |-> c, neg |-> FALSE, digits |-> << >>, s |-> ""]
StrTok(s) == [t |-> "str", neg |-> FALSE, digits |-> << >>, s |-> s]

RECURSIVE DigitsOf(_)
DigitsOf(n) ==
    IF n < 10 THEN << n >> ELSE Append(DigitsOf(n \div 10), n % 10)

RECURSIVE ValueOf(_)
ValueOf(ds) ==
    IF ds = << >> THEN 0
    ELSE ValueOf(SubSeq(ds, 1, Len(ds) - 1)) * 10 + Last(ds)

NumTok(n) ==
    [t |-> "num", neg |-> n < 0,
     digits |-> DigitsOf(IF n < 0 THEN 0 - n ELSE n), s |-> ""]
NumOfTok(tok) == IF tok.neg THEN 0 - ValueOf(tok.digits) ELSE ValueOf(tok.digits)

ScalarTok(v) == IF v.t = "int" THEN NumTok(v.n) ELSE StrTok(v.s)
ScalarOfTok(tok) == IF tok.t = "num" THEN IntVal(NumOfTok(tok)) ELSE StrVal(tok.s)

\* json.dumps of a list of ints: the numbers with a comma between
\* neighbours, in brackets.
DumpItems(arr) ==
    [i \in 1..(2 * Len(arr) - 1) |->
        IF i % 2 = 1 THEN NumTok(arr[(i + 1) \div 2]) ELSE Punct(",")]

JsonDumpsList(arr) ==
    << Punct("[") >> \o (IF arr = << >> THEN << >> ELSE DumpItems(arr)) \o << Punct("]") >>

\* json.loads of the text of a list of ints: the values of its number
\* tokens, in order.
IsNumTok(tok) == tok.t = "num"
JsonLoadsList(text) ==
    LET nums == SelectSeq(text, IsNumTok) IN
    [i \in 1..Len(nums) |-> NumOfTok(nums[i])]

\* json.dumps of a dict of scalars
RECURSIVE DumpPairs(_)
DumpPairs(d) ==
    IF d = << >> THEN << >>
    ELSE LET one == << StrTok(d[1].key), Punct(":"), ScalarTok(d[1].val) >> IN
         IF Len(d) = 1 THEN one ELSE one \o << Punct(",") >> \o DumpPairs(Tail(d))

JsonDumpsDict(d) == << Punct("{") >> \o DumpPairs(d) \o << Punct("}") >>

\* json.loads of the text of a dict of scalars, read from token i on
RECURSIVE LoadPairs(_, _)
LoadPairs(text, i) ==
    IF i > Len(text) \/ text[i].t = "}" THEN << >>
    ELSE IF text[i].t = "," THEN LoadPairs(text, i + 1)
    ELSE << [key |-> text[i].s, val |-> ScalarOfTok(text[i + 2])] >>
         \o LoadPairs(text, i + 3)

JsonLoadsDict(text) == LoadPairs(text, 2)

\* ------------------------------------------------------- the random module
\* random.seed / random.randint keep one generator state for the process:
\* CPython's Mersenne Twister MT19937 (624 words of 32 bits and a position),
\* seeded by init_by_array on the 32-bit words of abs(seed), and read by
\* randint through getrandbits with rejection.  Integers here stop at
\* 2^31 - 1, so a 32-bit word is the pair << high, low >> of its 16-bit
\* halves.
Half == 65536
Pow2(n) == 2^n

RECURSIVE XorBits(_, _, _)
XorBits(a, b, n) ==
    IF n = 0 THEN 0
    ELSE ((a + b) % 2) + 2 * XorBits(a \div 2, b \div 2, n - 1)
RECURSIVE AndBits(_, _, _)
AndBits(a, b, n) ==
    IF n = 0 THEN 0
    ELSE ((a % 2) * (b % 2)) + 2 * AndBits(a \div 2, b \div 2, n - 1)
Xor8 == [a \in 0..255 |-> [b \in 0..255 |-> XorBits(a, b, 8)]]
And8 == [a \in 0..255 |-> [b \in 0..255 |-> AndBits(a, b, 8)]]
Xor16(a, b) == Xor8[a \div 256][b \div 256] * 256 + Xor8[a % 256][b % 256]
And16(a, b) == And8[a \div 256][b \div 256] * 256 + And8[a % 256][b % 256]

\* u ^ w, u & w, u + w, u - w, u * w on uint32_t, u >> n and u << n
WXor(u, w) == << Xor16(u[1], w[1]), Xor16(u[2], w[2]) >>
WAnd(u, w) == << And16(u[1], w[1]), And16(u[2], w[2]) >>
WAdd(u, w) ==
    << (u[1] + w[1] + ((u[2] + w[2]) \div Half)) % Half, (u[2] + w[2]) % Half >>
WSub(u, w) ==
    << (u[1] - w[1] - (IF u[2] < w[2] THEN 1 ELSE 0) + 2 * Half) % Half,
       (u[2] - w[2] + Half) % Half >>
\* a * b for two 16-bit halves, without its top 8 bits, which Mul16Hi adds
Mul16(a, b) == a * (b % 256) + ((a * (b \div 256)) % 256) * 256
Mul16Lo(a, b) == Mul16(a, b) % Half
Mul16Hi(a, b) == (Mul16(a, b) \div Half) + ((a * (b \div 256)) \div 256)
WMul(u, w) ==
    << (Mul16Hi(u[2], w[2]) + Mul16Lo(u[1], w[2]) + Mul16Lo(u[2], w[1])) % Half,
       Mul16Lo(u[2], w[2]) >>
WShr(u, n) ==
    IF n >= 16 THEN << 0, u[1] \div Pow2(n - 16) >>
    ELSE << u[1] \div Pow2(n),
            ((u[1] % Pow2(n)) * Pow2(16 - n)) + (u[2] \div Pow2(n)) >>
WShl(u, n) ==
    << ((u[1] * Pow2(n)) % Half) + (u[2] \div Pow2(16 - n)),
       (u[2] * Pow2(n)) % Half >>

\* The generator's array length N and its offset M.
MTN == 624
MTM == 397

\* init_genrand(19650218): mt[i] = 1812433253 * (mt[i-1] ^ (mt[i-1] >> 30)) + i.
\* The loops over the array are run by halves, first half first.
GenNext(prev, i) ==
    WAdd(WMul(WXor(prev, WShr(prev, 30)), << 27655, 35173 >>), << 0, i >>)
RECURSIVE InitGenrand(_, _, _)
InitGenrand(mt, lo, hi) ==
    IF lo > hi THEN mt
    ELSE IF lo = hi THEN Append(mt, GenNext(mt[lo], lo))
    ELSE LET mid == (lo + hi) \div 2
             left == InitGenrand(mt, lo, mid)
         IN IF left # << >> THEN InitGenrand(left, mid + 1, hi) ELSE left
Genrand19650218 == InitGenrand(<< << 299, 54954 >> >>, 1, MTN - 1)

\* init_by_array with a key of one word: the first loop,
\* mt[i] = (mt[i] ^ ((mt[i-1] ^ (mt[i-1] >> 30)) * 1664525)) + key[0] + 0
KeyStep1(mt, i, key) ==
    [mt EXCEPT ![i + 1] =
        WAdd(WXor(mt[i + 1],
                  WMul(WXor(mt[i], WShr(mt[i], 30)), << 25, 26125 >>)), key)]
RECURSIVE KeyPass1(_, _, _, _)
KeyPass1(mt, lo, hi, key) ==
    IF lo > hi THEN mt
    ELSE IF lo = hi THEN KeyStep1(mt, lo, key)
    ELSE LET mid == (lo + hi) \div 2
             left == KeyPass1(mt, lo, mid, key)
         IN IF left # << >> THEN KeyPass1(left, mid + 1, hi, key) ELSE left
\* the second loop,
\* mt[i] = (mt[i] ^ ((mt[i-1] ^ (mt[i-1] >> 30)) * 1566083941)) - i
KeyStep2(mt, i) ==
    [mt EXCEPT ![i + 1] =
        WSub(WXor(mt[i + 1],
                  WMul(WXor(mt[i], WShr(mt[i], 30)), << 23896, 35685 >>)),
             << 0, i >>)]
RECURSIVE KeyPass2(_, _, _)
KeyPass2(mt, lo, hi) ==
    IF lo > hi THEN mt
    ELSE IF lo = hi THEN KeyStep2(mt, lo)
    ELSE LET mid == (lo + hi) \div 2
             left == KeyPass2(mt, lo, mid)
         IN IF left # << >> THEN KeyPass2(left, mid + 1, hi) ELSE left
\* `if (i >= N) { mt[0] = mt[N-1]; i = 1; }`
KeyWrap(mt) == [mt EXCEPT ![1] = mt[MTN]]
\* N iterations of the first loop from i = 1, N - 1 of the second from
\* i = 2, then mt[0] = 0x80000000.
InitByArray(key) ==
    LET p1 == KeyPass1(Genrand19650218, 1, MTN - 1, key)
        p2 == KeyStep1(KeyWrap(p1), 1, key)
        p3 == KeyPass2(p2, 2, MTN - 1)
        p4 == KeyStep2(KeyWrap(p3), 1)
    IN [p4 EXCEPT ![1] = << 32768, 0 >>]

\* One word of the regeneration in genrand_uint32:
\* y = (mt[kk] & UPPER_MASK) | (mt[kk+1] & LOWER_MASK);
\* mt[kk] = mt[kk+M] ^ (y >> 1) ^ mag01[y & 1]
TwistWord(a, b, c) ==
    LET y == << ((a[1] \div 32768) * 32768) + (b[1] % 32768), b[2] >> IN
    WXor(WXor(c, WShr(y, 1)),
         IF y[2] % 2 = 1 THEN << 39176, 45279 >> ELSE << 0, 0 >>)
\* The regeneration of all N words: the first N - M from the old array, the
\* rest from words already regenerated.
Twist(mt) ==
    LET d == MTN - MTM
        n1 == [k \in 1..d |-> TwistWord(mt[k], mt[k + 1], mt[k + MTM])]
        n2 == [k \in (d + 1)..(2 * d) |-> TwistWord(mt[k], mt[k + 1], n1[k - d])]
        n3 == [k \in (2 * d + 1)..(MTN - 1) |->
                  TwistWord(mt[k], mt[k + 1], n2[k - d])]
        n4 == TwistWord(mt[MTN], n1[1], n2[MTM])
    IN [k \in 1..MTN |->
          IF k <= d THEN n1[k]
          ELSE IF k <= 2 * d THEN n2[k]
          ELSE IF k < MTN THEN n3[k] ELSE n4]
RECURSIVE Twists(_, _)
Twists(mt, n) == IF n = 0 THEN mt ELSE Twists(Twist(mt), n - 1)
\* The tempering of genrand_uint32: y ^= (y >> 11);
\* y ^= (y << 7) & 0x9d2c5680; y ^= (y << 15) & 0xefc60000; y ^= (y >> 18).
Temper1(y) == WXor(y, WShr(y, 11))
Temper2(y) == WXor(y, WAnd(WShl(y, 7), << 40236, 22144 >>))
Temper3(y) == WXor(y, WAnd(WShl(y, 15), << 61382, 0 >>))
Temper4(y) == WXor(y, WShr(y, 18))
Temper(y0) == Temper4(Temper3(Temper2(Temper1(y0))))

\* The words number 624 * b + 1 .. 624 * b + 624 that genrand_uint32 puts
\* out after random.seed(key), key >= 0.
GenrandOutputs(key, b) ==
    LET mt == Twists(InitByArray(<< key \div Half, key % Half >>), b + 1) IN
    SubSeq([k \in 1..MTN |-> Temper(mt[k])], 1, MTN)
\* The first 624 words for the two seeds the runs use, computed once.
CachedSeeds == << DefaultSeed, ResetSeed >>
CachedOutputs == SubSeq([i \in 1..2 |-> GenrandOutputs(CachedSeeds[i], 0)], 1, 2)
GenrandBlock(key, b) ==
    LET i == IF key = CachedSeeds[1] THEN 1
             ELSE IF key = CachedSeeds[2] THEN 2 ELSE 0
    IN IF b = 0 /\ i > 0 THEN CachedOutputs[i] ELSE GenrandOutputs(key, b)

\* The generator's state, named by what fixes it: the key it was seeded
\* with and the number of words it has put out since.
\* random.seed(s): the key is abs(s).
RngSeed(s) == [key |-> IF s < 0 THEN 0 - s ELSE s, used |-> 0]
\* The state k words after state st.
RngJump(st, k) == [st EXCEPT !.used = @ + k]
RngNext(st) == RngJump(st, 1)
\* The next n words the generator puts out from state st.
RngWords(st, n) ==
    LET b0 == st.used \div MTN
        nb == ((st.used + n - 1) \div MTN) - b0 + 1
        blocks == SubSeq([i \in 1..nb |-> GenrandBlock(st.key, b0 + i - 1)], 1, nb)
    IN SubSeq([j \in 1..n |->
                  blocks[((st.used + j - 1) \div MTN) - b0 + 1]
                        [((st.used + j - 1) % MTN) + 1]], 1, n)
\* The next word the generator puts out from state st.
RngWord(st) == RngWords(st, 1)[1]
\* The state of a generator the program has not seeded (the module seeds it
\* from the system when it is imported); _generate_array never draws in it.
RngUnseeded == [key |-> 0 - 1, used |-> 0]

\* n.bit_length() for n >= 0
RECURSIVE BitLength(_)
BitLength(n) == IF n = 0 THEN 0 ELSE 1 + BitLength(n \div 2)
\* getrandbits(k), 1 <= k <= 31, on the word w: genrand_uint32() >> (32 - k)
GetRandBits(w, k) ==
    IF k <= 16 THEN w[1] \div Pow2(16 - k)
    ELSE (w[1] * Pow2(k - 16)) + (w[2] \div Pow2(32 - k))

\* getrandbits(k) on each of the words
Draws(words, k) ==
    SubSeq([j \in 1..Len(words) |-> GetRandBits(words[j], k)], 1, Len(words))
\* The positions of the draws r that _randbelow(width) accepts: r < width.
Accepted(r, width) ==
    LET Below(j) == r[j] < width IN
    SelectSeq([j \in 1..Len(r) |-> j], Below)

\* `count` results of lo + _randbelow(width) from state st, looking at the
\* next `limit` words: r = getrandbits(k) is drawn again while r >= width.
RECURSIVE RandBelows(_, _, _, _, _, _)
TakeBelows(st, count, lo, width, k, limit, r, taken) ==
    IF Len(taken) >= count
    THEN [vals |-> [i \in 1..count |-> lo + r[taken[i]]],
          state |-> RngJump(st, IF count = 0 THEN 0 ELSE taken[count])]
    ELSE RandBelows(st, count, lo, width, k, 2 * limit)
DrawBelows(st, count, lo, width, k, limit, r) ==
    TakeBelows(st, count, lo, width, k, limit, r, Accepted(r, width))
RandBelows(st, count, lo, width, k, limit) ==
    DrawBelows(st, count, lo, width, k, limit, Draws(RngWords(st, limit), k))

\* [random.randint(lo, hi) for _ in range(n)] from generator state st, for
\* lo <= hi: randint(lo, hi) is lo + _randbelow(hi - lo + 1).  The values
\* drawn and the state the generator is left in.
RandInts(st, n, lo, hi) ==
    LET count == IF n < 0 THEN 0 ELSE n
        width == hi - lo + 1
    IN RandBelows(st, count, lo, width, BitLength(width), count + 8)

\* datetime.now().isoformat() and date.today().isoformat(), to the day.
IsoDate(d) ==
    << "2024-01-01", "2024-01-02", "2024-01-03", "2024-01-04", "2024-01-05" >>[d]

\* ------------------------------------------------------------------- state
VARIABLES
    redis,         \* the key-value store: [array, metadata], each a JSON text
    client,        \* RedisDatabase.client has been created
    array_size,    \* BinarySearchService.array_size
    min_value,     \* BinarySearchService.min_value
    max_value,     \* BinarySearchService.max_value
    seed,          \* BinarySearchService.seed
    search_stats,  \* BinarySearchService._search_stats
    rng_state,     \* the state of the process-wide random generator
    today,         \* the local calendar day
    serving,       \* the application accepts requests
    tasks,         \* the coroutines of the event loop, one record each
    budget,        \* requests and restarts the run may still begin
    probe,         \* the pure search runs: an array, a target, the result
    workload,      \* the statistics runs: the recorded stream's pattern
    snapshot       \* the statistics runs: the last get_statistics() result

vars == << redis, client, array_size, min_value, max_value, seed, search_stats,
           rng_state, today, serving, tasks, budget, probe, workload,
           snapshot >>
mgrVars == << array_size, min_value, max_value, seed >>
sideVars == << probe, workload, snapshot >>

Tasks == { "t1", "t2" }

\* RedisDatabase.array_key / metadata_key name the two fields of redis.
NoText == << >>

\* ------------------------------------------------------ RedisDatabase (I/O)
\* load_array(): `if data: return json.loads(data)`, else None; None is
\* modelled as the empty list, which every caller tests with `not array`.
LoadArray(store) ==
    IF store.array # NoText THEN JsonLoadsList(store.array) ELSE << >>
\* A save that merges the new array into the stored one.
SaveArrayMerged(store, array) ==
    [store EXCEPT !.array =
        JsonDumpsList(SortSeq(
            (IF store.array # NoText THEN JsonLoadsList(store.array) ELSE << >>)
                \o array, IntLess))]
\* save_array(array)
SaveArray(store, array) == [store EXCEPT !.array = JsonDumpsList(array)]
\* load_array_metadata(): the dict, or None modelled as the empty dict
\* (both are falsy in get_array_source).
LoadArrayMetadata(store) ==
    IF store.metadata # NoText THEN JsonLoadsDict(store.metadata) ELSE EmptyDict
\* save_array_metadata(metadata)
SaveArrayMetadata(store, metadata) ==
    [store EXCEPT !.metadata = JsonDumpsDict(metadata)]

\* clear_data(): both keys are deleted.
ClearData(store) == [store EXCEPT !.array = NoText, !.metadata = NoText]

\* A test that takes every loaded array for a missing one.
NotArrayEver(array) == TRUE

\* `not array` for a list or None
NotArray(array) == array = << >>

\* ------------------------------------------------- BinarySearchService
Defaults ==
    [array_size |-> array_size, min_value |-> min_value,
     max_value |-> max_value, seed |-> seed]

NoParams == [size |-> NoArg, min_value |-> NoArg, max_value |-> NoArg, seed |-> NoArg]

\* The check of _generate_array that raises ValueError.
InvalidRange(min_val, max_val) == min_val >= max_val

\* What _generate_array returns from the draws r: sorted(array).
Generated(r) == [ok |-> TRUE, array |-> Sorted(r.vals), rng |-> r.state]

\* _generate_array(size, min_val, max_val, seed) run with the manager's
\* fields d and the generator state rng: whether it returned, the array,
\* and the generator state it leaves.
GenerateArray(d, p, rng) ==
    LET size == OrElse(p.size, d.array_size)
        min_val == OrElse(p.min_value, d.min_value)
        max_val == OrElse(p.max_value, d.max_value)
        sd == OrElse(p.seed, d.seed)
    IN IF InvalidRange(min_val, max_val)
       THEN [ok |-> FALSE, array |-> << >>, rng |-> rng]
       ELSE Generated(RandInts(RngSeed(sd), size, min_val, max_val))

\* The metadata dict initialize_array builds (services.py 33-40).
InitMetadata(d, array, day) ==
    << [key |-> "size", val |-> IntVal(Len(array))],
       [key |-> "min_value", val |-> IntVal(d.min_value)],
       [key |-> "max_value", val |-> IntVal(d.max_value)],
       [key |-> "seed", val |-> IntVal(d.seed)],
       [key |-> "generated_at", val |-> StrVal(IsoDate(day))],
       [key |-> "source", val |-> StrVal("generated")] >>

\* The metadata dict reset_array builds (services.py 128-135).
ResetMetadata(d, p, array, day) ==
    << [key |-> "size", val |-> IntVal(Len(array))],
       [key |-> "min_value", val |-> IntVal(OrElse(p.min_value, d.min_value))],
       [key |-> "max_value", val |-> IntVal(OrElse(p.max_value, d.max_value))],
       [key |-> "seed", val |-> IntVal(OrElse(p.seed, d.seed))],
       [key |-> "generated_at", val |-> StrVal(IsoDate(day))],
       [key |-> "source", val |-> StrVal("regenerated")] >>

\* Assignments that take every supplied argument, 0 included.
ResetDefaultsGiven(d, p) ==
    [array_size |-> IF p.size.given THEN p.size.v ELSE d.array_size,
     min_value |-> IF p.min_value.given THEN p.min_value.v ELSE d.min_value,
     max_value |-> IF p.max_value.given THEN p.max_value.v ELSE d.max_value,
     seed |-> IF p.seed.given THEN p.seed.v ELSE d.seed]

\* The four conditional assignments that open reset_array.
ResetDefaults(d, p) ==
    [array_size |-> IF Truthy(p.size) THEN p.size.v ELSE d.array_size,
     min_value |-> IF Truthy(p.min_value) THEN p.min_value.v ELSE d.min_value,
     max_value |-> IF Truthy(p.max_value) THEN p.max_value.v ELSE d.max_value,
     seed |-> IF Truthy(p.seed) THEN p.seed.v ELSE d.seed]

\* A source that is taken to be "generated" whatever the metadata says.
ArraySourceAssumed(metadata) == "generated"

\* get_array_source() on the loaded metadata
ArraySource(metadata) ==
    IF metadata # EmptyDict
    THEN DictGet(metadata, "source", StrVal("unknown")).s
    ELSE "generated"

\* ---------------------------------------------------------------- statistics
EmptyStats ==
    [total_searches |-> 0, successful_searches |-> 0, failed_searches |-> 0,
     search_times |-> << >>, value_counts |-> EmptyDict,
     daily_counts |-> EmptyDict]

\* The window left by a pop of the newest sample instead of the oldest.
TrimWindowNewest(times) ==
    IF Len(times) > WindowLimit THEN SubSeq(times, 1, Len(times) - 1) ELSE times

\* `if len(search_times) > 1000: search_times.pop(0)`
TrimWindow(times) ==
    IF Len(times) > WindowLimit THEN Tail(times) ELSE times

\* A record step that writes 1 as the value's count instead of adding 1.
TrackSearchOverwritesCount(stats, value, found, search_time, day) ==
    [total_searches |-> stats.total_searches + 1,
     successful_searches |->
        IF found THEN stats.successful_searches + 1 ELSE stats.successful_searches,
     failed_searches |->
        IF found THEN stats.failed_searches ELSE stats.failed_searches + 1,
     search_times |-> TrimWindow(Append(stats.search_times, search_time)),
     value_counts |-> DictSet(stats.value_counts, value, 1),
     daily_counts |->
        DictSet(stats.daily_counts, IsoDate(day),
                DictGet(stats.daily_counts, IsoDate(day), 0) + 1)]

\* A record step that counts the hits and forgets the misses.
TrackSearchHitsOnly(stats, value, found, search_time, day) ==
    [total_searches |-> stats.total_searches + 1,
     successful_searches |->
        IF found THEN stats.successful_searches + 1 ELSE stats.successful_searches,
     failed_searches |-> stats.failed_searches,
     search_times |-> TrimWindow(Append(stats.search_times, search_time)),
     value_counts |->
        DictSet(stats.value_counts, value, DictGet(stats.value_counts, value, 0) + 1),
     daily_counts |->
        DictSet(stats.daily_counts, IsoDate(day),
                DictGet(stats.daily_counts, IsoDate(day), 0) + 1)]

\* track_search(value, found, search_time) on day `day`
TrackSearch(stats, value, found, search_time, day) ==
    [total_searches |-> stats.total_searches + 1,
     successful_searches |->
        IF found THEN stats.successful_searches + 1 ELSE stats.successful_searches,
     failed_searches |->
        IF found THEN stats.failed_searches ELSE stats.failed_searches + 1,
     search_times |-> TrimWindow(Append(stats.search_times, search_time)),
     value_counts |->
        DictSet(stats.value_counts, value, DictGet(stats.value_counts, value, 0) + 1),
     daily_counts |->
        DictSet(stats.daily_counts, IsoDate(day),
                DictGet(stats.daily_counts, IsoDate(day), 0) + 1)]

\* sum(times[lo..hi]), halving the range
RECURSIVE SumRange(_, _, _)
SumRange(times, lo, hi) ==
    IF lo > hi THEN 0
    ELSE IF lo = hi THEN times[lo]
    ELSE LET m == (lo + hi) \div 2 IN
         SumRange(times, lo, m) + SumRange(times, m + 1, hi)

Sum(times) == SumRange(times, 1, Len(times))

\* The value recorded last, whatever its count.
MostSearchedLast(counts) == counts[Len(counts)].key

\* max(value_counts.items(), key=count)[0]: the first pair, in insertion
\* order, whose count no later or earlier pair exceeds.
MostSearched(counts) ==
    LET best == CHOOSE i \in 1..Len(counts) :
                    /\ \A j \in 1..Len(counts) : counts[j].val <= counts[i].val
                    /\ \A j \in 1..(i - 1) : counts[j].val < counts[i].val
    IN counts[best].key

\* get_statistics() on day `day`.  The average is the exact quotient
\* num / den; an empty window gives the integer 0, written 0 / 1.
GetStatistics(stats, day) ==
    [total_searches |-> stats.total_searches,
     successful_searches |-> stats.successful_searches,
     failed_searches |-> stats.failed_searches,
     search_times |-> stats.search_times,
     value_counts |-> stats.value_counts,
     daily_counts |-> stats.daily_counts,
     average_search_time_ms |->
        IF stats.search_times # << >>
        THEN [num |-> Sum(stats.search_times), den |-> Len(stats.search_times)]
        ELSE [num |-> 0, den |-> 1],
     most_searched_value |->
        IF stats.value_counts # EmptyDict
        THEN Arg(MostSearched(stats.value_counts))
        ELSE NoArg,
     searches_today |-> DictGet(stats.daily_counts, IsoDate(day), 0)]

\* -------------------------------------------------------------- coroutines
NoRet == << >>
IdleTask ==
    [op |-> "idle", pc |-> "idle", value |-> 0, params |-> NoParams,
     array |-> << >>, metadata |-> EmptyDict, status |-> 0, ret |-> NoRet,
     had_client |-> FALSE, ping |-> "none", connected |-> FALSE]

\* startup_event() has called initialize_array(), which awaits load_array().
StartupTask == [IdleTask EXCEPT !.op = "startup", !.pc = "init_load"]

Running(t) == tasks[t].pc \notin { "idle", "done" }
Free(t) == serving /\ ~Running(t) /\ budget > 0

Finish(t, status, ret) ==
    [tasks EXCEPT ![t] = [@ EXCEPT !.pc = "done", !.status = status, !.ret = ret]]

\* A response whose array_size is read from the store again.
SearchResponseRereads(out, ms) ==
    [found |-> out.found, index |-> out.index, value |-> out.value,
     array_size |-> Len(LoadArray(redis)),
     array_min |-> out.array_min,
     array_max |-> out.array_max, search_time_ms |-> ms]

\* main.py search_value builds SearchResponse from the outcome.
SearchResponse(out, ms) ==
    [found |-> out.found, index |-> out.index, value |-> out.value,
     array_size |-> out.array_size, array_min |-> out.array_min,
     array_max |-> out.array_max, search_time_ms |-> ms]

\* main.py get_array builds ArrayResponse from the array and the source;
\* min_value, max_value and is_sorted are None for an empty array.
ArrayResponse(array, source) ==
    [array |-> array, size |-> Len(array),
     min_value |-> IF array # << >> THEN Arg(Min(array)) ELSE NoArg,
     max_value |-> IF array # << >> THEN Arg(Max(array)) ELSE NoArg,
     is_sorted |-> IF array # << >> THEN ArgBool(IsSorted(array)) ELSE NoBool,
     source |-> source]

\* The state after construction (main.py 48-55, services.py 8-24).  Under a
\* server the startup event runs before any request is accepted; an
\* application driven without its lifespan (tests/test_api.py) serves at
\* once and initialises lazily.  The startup event has run to its first
\* await: load_array() has called connect(), which creates the client
\* before it awaits the ping.
ProcessStart(withStartup) ==
    /\ client = withStartup
    /\ array_size = DefaultSize
    /\ min_value = DefaultMin
    /\ max_value = DefaultMax
    /\ seed = DefaultSeed
    /\ search_stats = EmptyStats
    /\ rng_state = RngUnseeded
    /\ serving = ~withStartup
    /\ tasks = [t \in Tasks |-> IF withStartup /\ t = "t1" THEN StartupTask ELSE IdleTask]

NoProbe ==
    [array |-> << >>, value |-> 0, done |-> FALSE, trace |-> NoRet,
     status |-> 0, answer |-> NoRet]
NoWorkload == [values |-> 1, hit_every |-> 1, period |-> 1, midnight |-> 0]

\* The code a caller of get_array() / initialize_array() runs once the
\* array is handed back, up to its next await; ms is the elapsed time
\* search_value measures.  On an empty array search() raises IndexError at
\* array[0], which search_value answers 500 without recording anything.
ReturnArray(t, array, ms) ==
    \/ /\ tasks[t].op = "startup"
       /\ tasks' = [tasks EXCEPT ![t] =
              [@ EXCEPT !.pc = "done", !.status = 200, !.array = array,
                        !.ret = [array |-> array]]]
       /\ serving' = TRUE
       /\ UNCHANGED search_stats
    \/ /\ tasks[t].op = "search"
       /\ IF array = << >>
          THEN /\ tasks' = [tasks EXCEPT ![t] =
                      [@ EXCEPT !.pc = "done", !.status = 500, !.array = array]]
               /\ UNCHANGED search_stats
          ELSE LET out == SearchOutcome(array, tasks[t].value) IN
               /\ search_stats' =
                      TrackSearch(search_stats, tasks[t].value, out.found, ms, today)
               /\ tasks' = [tasks EXCEPT ![t] =
                      [@ EXCEPT !.pc = "done", !.status = 200, !.array = array,
                                !.ret = SearchResponse(out, ms)]]
       /\ UNCHANGED serving
    \/ /\ tasks[t].op = "array"
       /\ tasks' = [tasks EXCEPT ![t] = [@ EXCEPT !.pc = "src_load", !.array = array]]
       /\ UNCHANGED << serving, search_stats >>

\* ValueError out of initialize_array(): search_value answers 400, get_array
\* answers 500, and a startup that raises leaves the application down.
RaiseValueError(t) ==
    /\ tasks' = Finish(t, IF tasks[t].op = "search" THEN 400 ELSE 500, NoRet)
    /\ UNCHANGED << serving, search_stats >>

\* POST /search with value v: search() awaits get_array(), which awaits
\* load_array(); without a client load_array() calls connect(), which
\* creates the client before its first await.
StartSearch(t, v) ==
    /\ Free(t)
    /\ budget' = budget - 1
    /\ client' = TRUE
    /\ tasks' = [tasks EXCEPT ![t] =
           [IdleTask EXCEPT !.op = "search", !.pc = "ga_load", !.value = v]]
    /\ UNCHANGED << redis, mgrVars, search_stats, rng_state, today,
                    serving, sideVars >>

\* GET /array: get_array() awaits load_array(), which has created the
\* client if there was none.
StartGetArray(t) ==
    /\ Free(t)
    /\ budget' = budget - 1
    /\ client' = TRUE
    /\ tasks' = [tasks EXCEPT ![t] = [IdleTask EXCEPT !.op = "array", !.pc = "ga_load"]]
    /\ UNCHANGED << redis, mgrVars, search_stats, rng_state, today,
                    serving, sideVars >>

\* POST /reset with parameters p: reset_array() up to its first await
\* (services.py 117-127), where save_array() has created the client if
\* there was none; a ValueError is answered 400 before any store call.
StartReset(t, p) ==
    /\ Free(t)
    /\ budget' = budget - 1
    /\ \E d \in { ResetDefaults(Defaults, p) } :
       \E g \in { GenerateArray(d, p, rng_state) } :
          /\ array_size' = d.array_size
          /\ min_value' = d.min_value
          /\ max_value' = d.max_value
          /\ seed' = d.seed
          /\ rng_state' = g.rng
          /\ client' = (client \/ g.ok)
          /\ tasks' = [tasks EXCEPT ![t] =
                 IF g.ok
                 THEN [IdleTask EXCEPT !.op = "reset", !.pc = "reset_save",
                                       !.params = p, !.array = g.array]
                 ELSE [IdleTask EXCEPT !.op = "reset", !.pc = "done",
                                       !.params = p, !.status = 400]]
    /\ UNCHANGED << redis, search_stats, today, serving, sideVars >>

\* GET /stats: get_statistics() has no await.
StartStats(t) ==
    /\ Free(t)
    /\ budget' = budget - 1
    /\ tasks' = [tasks EXCEPT ![t] =
           [IdleTask EXCEPT !.op = "stats", !.pc = "done", !.status = 200,
                            !.ret = GetStatistics(search_stats, today)]]
    /\ UNCHANGED << redis, client, mgrVars, search_stats, rng_state, today,
                    serving, sideVars >>

\* get_array(): the store answers load_array(); `if not array` calls
\* initialize_array(), which awaits load_array() again.
GetArrayLoad(t, ms) ==
    /\ tasks[t].pc = "ga_load"
    /\ client' = TRUE
    /\ \E array \in { LoadArray(redis) } :
         IF NotArray(array)
         THEN /\ tasks' = [tasks EXCEPT ![t] = [@ EXCEPT !.pc = "init_load"]]
              /\ UNCHANGED << serving, search_stats >>
         ELSE ReturnArray(t, array, ms)
    /\ UNCHANGED << redis, mgrVars, rng_state, today, budget, sideVars >>

\* initialize_array(): the store answers load_array(); an absent array is
\* generated from the manager's fields and save_array() is awaited.
InitLoad(t, ms) ==
    /\ tasks[t].pc = "init_load"
    /\ client' = TRUE
    /\ \E array \in { LoadArray(redis) } :
         IF NotArray(array)
         THEN \E g \in { GenerateArray(Defaults, NoParams, rng_state) } :
                /\ rng_state' = g.rng
                /\ IF g.ok
                   THEN /\ tasks' = [tasks EXCEPT ![t] =
                               [@ EXCEPT !.pc = "init_save", !.array = g.array]]
                        /\ UNCHANGED << serving, search_stats >>
                   ELSE RaiseValueError(t)
         ELSE /\ ReturnArray(t, array, ms)
              /\ UNCHANGED rng_state
    /\ UNCHANGED << redis, mgrVars, today, budget, sideVars >>

\* initialize_array(): the store executes save_array(); the metadata dict is
\* built and save_array_metadata() is awaited.
InitSave(t) ==
    /\ tasks[t].pc = "init_save"
    /\ client' = TRUE
    /\ redis' = SaveArray(redis, tasks[t].array)
    /\ tasks' = [tasks EXCEPT ![t] =
           [@ EXCEPT !.pc = "init_meta",
                     !.metadata = InitMetadata(Defaults, tasks[t].array, today)]]
    /\ UNCHANGED << mgrVars, search_stats, rng_state, today, serving, budget,
                    sideVars >>

\* initialize_array(): the store executes save_array_metadata(); the array
\* is returned to the caller.
InitMeta(t, ms) ==
    /\ tasks[t].pc = "init_meta"
    /\ client' = TRUE
    /\ redis' = SaveArrayMetadata(redis, tasks[t].metadata)
    /\ ReturnArray(t, tasks[t].array, ms)
    /\ UNCHANGED << mgrVars, rng_state, today, budget, sideVars >>

\* reset_array(): the store executes save_array(); the metadata dict is
\* built and save_array_metadata() is awaited.
ResetSave(t) ==
    /\ tasks[t].pc = "reset_save"
    /\ client' = TRUE
    /\ redis' = SaveArray(redis, tasks[t].array)
    /\ tasks' = [tasks EXCEPT ![t] =
           [@ EXCEPT !.pc = "reset_meta",
                     !.metadata = ResetMetadata(Defaults, tasks[t].params,
                                                tasks[t].array, today)]]
    /\ UNCHANGED << mgrVars, search_stats, rng_state, today, serving, budget,
                    sideVars >>

\* reset_array(): the store executes save_array_metadata(); POST /reset
\* answers 200.
ResetMeta(t) ==
    /\ tasks[t].pc = "reset_meta"
    /\ client' = TRUE
    /\ redis' = SaveArrayMetadata(redis, tasks[t].metadata)
    /\ tasks' = Finish(t, 200, NoRet)
    /\ UNCHANGED << mgrVars, search_stats, rng_state, today, serving, budget,
                    sideVars >>

\* get_array_source(): the store answers load_array_metadata(); GET /array
\* answers with the array and the source.
SourceLoad(t) ==
    /\ tasks[t].pc = "src_load"
    /\ client' = TRUE
    /\ tasks' = Finish(t, 200,
           ArrayResponse(tasks[t].array, ArraySource(LoadArrayMetadata(redis))))
    /\ UNCHANGED << redis, mgrVars, search_stats, rng_state, today, serving,
                    budget, sideVars >>

\* clear_data() is called: without a client it calls connect(), which
\* creates the client before its first await, and the DEL is awaited.  No
\* handler calls it; its caller is any other code on the event loop, so it
\* does not wait for the application to serve.
StartClear(t) ==
    /\ ~Running(t)
    /\ budget > 0
    /\ budget' = budget - 1
    /\ client' = TRUE
    /\ tasks' = [tasks EXCEPT ![t] = [IdleTask EXCEPT !.op = "clear", !.pc = "clear_del"]]
    /\ UNCHANGED << redis, mgrVars, search_stats, rng_state, today,
                    serving, sideVars >>

\* clear_data(): the store executes the DEL of both keys, and the call
\* returns None.
ClearDel(t) ==
    /\ tasks[t].pc = "clear_del"
    /\ client' = TRUE
    /\ redis' = ClearData(redis)
    /\ tasks' = [tasks EXCEPT ![t] = [@ EXCEPT !.pc = "done"]]
    /\ UNCHANGED << mgrVars, search_stats, rng_state, today, serving, budget,
                    sideVars >>

\* An is_connected() that takes a missing client for a live connection.
IsConnectedWithoutClient(hasClient, ping) == ~hasClient \/ ping = "pong"

\* is_connected(): True when there is a client and its ping returns; False
\* without a client, and False for whatever the ping raises (bare except).
IsConnected(hasClient, ping) == hasClient /\ ping = "pong"

\* What a ping can do: return, raise a connection error, time out.
PingOutcomes == { "pong", "error", "timeout" }

\* health_check() once is_connected() has returned redis_status: the
\* HealthResponse, or the HTTPException 503 that `except Exception` raises
\* again as a 503.
HealthAnswer(task, redis_status) ==
    [task EXCEPT
        !.pc = "done", !.connected = redis_status,
        !.status = IF redis_status THEN 200 ELSE 503,
        !.ret = IF redis_status
                THEN [status |-> "healthy", redis_connected |-> TRUE]
                ELSE NoRet]

\* GET /health: is_connected() returns False at once without a client, and
\* awaits the ping otherwise.
StartHealth(t) ==
    /\ Free(t)
    /\ budget' = budget - 1
    /\ tasks' = [tasks EXCEPT ![t] =
           IF client
           THEN [IdleTask EXCEPT !.op = "health", !.pc = "ping",
                                 !.had_client = TRUE]
           ELSE HealthAnswer([IdleTask EXCEPT !.op = "health"],
                             IsConnected(FALSE, "none"))]
    /\ UNCHANGED << redis, client, mgrVars, search_stats, rng_state, today,
                    serving, sideVars >>

\* GET /health: the ping returns or raises, and health_check answers.
HealthPing(t, ping) ==
    /\ tasks[t].pc = "ping"
    /\ tasks' = [tasks EXCEPT ![t] =
           HealthAnswer([tasks[t] EXCEPT !.ping = ping],
                        IsConnected(tasks[t].had_client, ping))]
    /\ UNCHANGED << redis, client, mgrVars, search_stats, rng_state, today,
                    serving, budget, sideVars >>

\* Midnight passes on the local clock.
NextDay ==
    /\ today < MaxDay
    /\ today' = today + 1
    /\ UNCHANGED << redis, client, mgrVars, search_stats, rng_state, serving,
                    tasks, budget, sideVars >>

\* The process is stopped and started again: the store keeps its keys, the
\* service object, its statistics and every coroutine are new; with the
\* startup event, the new process has run it to its first await.
Restart(withStartup) ==
    /\ budget > 0
    /\ budget' = budget - 1
    /\ client' = withStartup
    /\ array_size' = DefaultSize
    /\ min_value' = DefaultMin
    /\ max_value' = DefaultMax
    /\ seed' = DefaultSeed
    /\ search_stats' = EmptyStats
    /\ rng_state' = RngUnseeded
    /\ serving' = ~withStartup
    /\ tasks' = [t \in Tasks |->
           IF withStartup /\ t = "t1" THEN StartupTask ELSE IdleTask]
    /\ UNCHANGED << redis, today, sideVars >>

\* ------------------------------------------------------------------ inputs
Samples == 1..MaxSample
\* Values searched for: a few small ones, and the first element of the
\* array the store holds (a caller can read it with GET /array).
SmallValues == 0..(ResetMaxVal + 1)
SearchValues ==
    SmallValues \cup (IF redis.array # NoText /\ LoadArray(redis) # << >>
                      THEN { At(LoadArray(redis), 0) } ELSE { })
OptSizes == { NoArg, Arg(0), Arg(ResetSize) }
OptBounds == { NoArg } \cup { Arg(x) : x \in 0..ResetMaxVal }
OptSeeds == { NoArg, Arg(0), Arg(ResetSeed) }

\* Reset requests of the one-at-a-time runs: every pair of bounds with the
\* size and seed left out, and every size and seed with the bounds left out.
SeqResetParams ==
    [size : { NoArg }, min_value : OptBounds, max_value : OptBounds, seed : { NoArg }]
    \cup [size : OptSizes, min_value : { NoArg }, max_value : { NoArg }, seed : OptSeeds]

\* Reset requests of the concurrent runs: no parameters, a small array, and
\* bounds that _generate_array rejects.
SmallReset ==
    [size |-> Arg(ResetSize), min_value |-> NoArg,
     max_value |-> Arg(ResetMaxVal), seed |-> Arg(ResetSeed)]
BadReset ==
    [size |-> NoArg, min_value |-> Arg(ResetMaxVal), max_value |-> Arg(1),
     seed |-> NoArg]
ResetParams == { NoParams, SmallReset, BadReset }

\* ------------------------------------------- the concurrent service (Spec)
Init ==
    /\ redis = [array |-> NoText, metadata |-> NoText]
    /\ today = 1
    /\ budget = MaxEvents
    /\ \E withStartup \in BOOLEAN : ProcessStart(withStartup)
    /\ probe = NoProbe
    /\ workload = NoWorkload
    /\ snapshot = NoRet

Next ==
    \/ \E t \in Tasks, v \in SearchValues : StartSearch(t, v)
    \/ \E t \in Tasks : StartGetArray(t)
    \/ \E t \in Tasks, p \in ResetParams : StartReset(t, p)
    \/ \E t \in Tasks : StartStats(t)
    \/ \E t \in Tasks, ms \in Samples : GetArrayLoad(t, ms)
    \/ \E t \in Tasks, ms \in Samples : InitLoad(t, ms)
    \/ \E t \in Tasks : InitSave(t)
    \/ \E t \in Tasks, ms \in Samples : InitMeta(t, ms)
    \/ \E t \in Tasks : ResetSave(t)
    \/ \E t \in Tasks : ResetMeta(t)
    \/ \E t \in Tasks : SourceLoad(t)
    \/ \E t \in Tasks : StartClear(t)
    \/ \E t \in Tasks : ClearDel(t)
    \/ \E withStartup \in BOOLEAN : Restart(withStartup)

Spec == Init /\ [][Next]_vars

\* ------------------------------- one request at a time (SpecSeq): only the
\* coroutine t1 runs, so every request ends before the next begins.
InitSeq ==
    /\ redis = [array |-> NoText, metadata |-> NoText]
    /\ today = 1
    /\ budget = MaxSeqEvents
    /\ \E withStartup \in BOOLEAN : ProcessStart(withStartup)
    /\ probe = NoProbe
    /\ workload = NoWorkload
    /\ snapshot = NoRet

NextSeq ==
    \/ \E v \in SearchValues : StartSearch("t1", v)
    \/ StartGetArray("t1")
    \/ \E p \in SeqResetParams : StartReset("t1", p)
    \/ StartStats("t1")
    \/ \E ms \in Samples : GetArrayLoad("t1", ms)
    \/ \E ms \in Samples : InitLoad("t1", ms)
    \/ InitSave("t1")
    \/ \E ms \in Samples : InitMeta("t1", ms)
    \/ ResetSave("t1")
    \/ ResetMeta("t1")
    \/ SourceLoad("t1")
    \/ StartClear("t1")
    \/ ClearDel("t1")
    \/ StartHealth("t1")
    \/ \E ping \in PingOutcomes : HealthPing("t1", ping)
    \/ NextDay
    \/ \E withStartup \in BOOLEAN : Restart(withStartup)

SpecSeq == InitSeq /\ [][NextSeq]_vars

\* ------------------------------------------------ pure search (SpecSearch)
SortedArrays ==
    { a \in UNION { [1..n -> 0..MaxVal] : n \in 1..MaxLen } : IsSorted(a) }
Targets == (0 - 1)..(MaxVal + 1)

InitSearch ==
    /\ redis = [array |-> NoText, metadata |-> NoText]
    /\ today = 1
    /\ budget = 0
    /\ ProcessStart(FALSE)
    /\ \E a \in SortedArrays, v \in Targets :
         probe = [NoProbe EXCEPT !.array = a, !.value = v]
    /\ workload = NoWorkload
    /\ snapshot = NoRet

\* search() from the point where get_array() has handed it probe.array.
SearchProbe ==
    /\ ~probe.done
    /\ probe.array # << >>
    /\ probe' = [probe EXCEPT !.done = TRUE,
                              !.trace = SearchTrace(probe.array, probe.value)]
    /\ UNCHANGED << redis, client, mgrVars, search_stats, rng_state, today,
                    serving, tasks, budget, workload, snapshot >>

\* search_value once search() has returned (main.py 116-131): the response
\* is built, track_search() is called and the response returned; a
\* ValueError out of track_search() (date.today() on a clock past year
\* 9999) is caught by `except ValueError` and answered 400, any other
\* exception by `except Exception` and answered 500.  record is what
\* track_search() does; when it raises, it raises at its first line.
RecordOutcomes == { "returns", "ValueError", "Exception" }
AnswerProbe(record, ms) ==
    /\ probe.done
    /\ probe.status = 0
    /\ IF record # "returns"
       THEN /\ probe' = [probe EXCEPT
                            !.status = IF record = "ValueError" THEN 400 ELSE 500]
            /\ UNCHANGED search_stats
       ELSE /\ probe' = [probe EXCEPT !.status = 200,
                             !.answer = SearchResponse(probe.trace.outcome, ms)]
            /\ search_stats' = TrackSearch(search_stats, probe.value,
                                           probe.trace.outcome.found, ms, today)
    /\ UNCHANGED << redis, client, mgrVars, rng_state, today, serving, tasks,
                    budget, workload, snapshot >>

NextSearch ==
    \/ SearchProbe
    \/ \E record \in RecordOutcomes, ms \in Samples : AnswerProbe(record, ms)

SpecSearch == InitSearch /\ [][NextSearch]_vars

\* ---------------------------------------- statistics workload (SpecStats)
\* A stream of searches given by its pattern w: the k-th search asks for
\* value 1 + k mod w.values, finds it when w.hit_every divides k, and takes
\* 1 + k mod w.period milliseconds; midnight passes once, after w.midnight
\* searches.
WorkloadItem(w, k) ==
    [value |-> 1 + (k % w.values), found |-> (k % w.hit_every) = 0,
     ms |-> 1 + (k % w.period)]
Workloads ==
    [values : { 2 }, hit_every : { 2 }, period : { 3, 7 },
     midnight : { 1, WindowLimit }]

InitStats ==
    /\ redis = [array |-> NoText, metadata |-> NoText]
    /\ today = 1
    /\ budget = 0
    /\ ProcessStart(FALSE)
    /\ probe = NoProbe
    /\ workload \in Workloads
    /\ snapshot = NoRet

\* search_value records the search it has just answered (main.py 129).
RecordSearch ==
    /\ search_stats.total_searches < MaxRecords
    /\ \E it \in { WorkloadItem(workload, search_stats.total_searches + 1) } :
         search_stats' = TrackSearch(search_stats, it.value, it.found, it.ms, today)
    /\ snapshot' = NoRet
    /\ UNCHANGED << redis, client, mgrVars, rng_state, today, serving, tasks,
                    budget, probe, workload >>

\* GET /stats answers with get_statistics().
TakeSnapshot ==
    /\ snapshot = NoRet
    /\ snapshot' = GetStatistics(search_stats, today)
    /\ UNCHANGED << redis, client, mgrVars, search_stats, rng_state, today,
                    serving, tasks, budget, probe, workload >>

\* Midnight passes at the workload's point.
Midnight ==
    /\ search_stats.total_searches = workload.midnight
    /\ snapshot = NoRet
    /\ NextDay

NextStats ==
    \/ RecordSearch
    \/ TakeSnapshot
    \/ Midnight

SpecStats == InitStats /\ [][NextStats]_vars

\* ================================================================== claims
\* C1: for every non-empty sorted array A and target t, search reports
\* found exactly when t occurs in A; when found the index is a position of
\* A holding t, and when not found the index is -1.
C1_SearchFindsExactlyOccurring ==
    probe.done =>
        LET out == probe.trace.outcome IN
        /\ out.found <=> Occurs(probe.array, probe.value)
        /\ out.found =>
              /\ 0 <= out.index
              /\ out.index < Len(probe.array)
              /\ At(probe.array, out.index) = probe.value
        /\ ~out.found => out.index = -1
C1_Witness ==
    /\ probe.done
    /\ Len(probe.array) = MaxLen
    /\ probe.trace.outcome.found
    /\ probe.trace.outcome.index = MaxLen - 1
    /\ probe.trace.probes > 1

\* C2: a target below the first or above the last element is answered
\* found = false, index = -1 without one iteration of the search loop.
C2_OutOfRangeSkipsLoop ==
    (probe.done /\ (probe.value < At(probe.array, 0) \/ probe.value > Last(probe.array)))
        => /\ ~probe.trace.outcome.found
           /\ probe.trace.outcome.index = -1
           /\ probe.trace.probes = 0
C2_Witness ==
    /\ probe.done
    /\ Len(probe.array) = MaxLen
    /\ probe.value > Last(probe.array)
    /\ probe.trace.probes = 0

\* C3: in every state reached by startup, get_array, search, reset and
\* restart, the array the store holds is non-decreasing, and so is every
\* array a coroutine has generated or been handed by get_array, and every
\* array answered by GET /array.
C3_ArraysSorted ==
    /\ IsSorted(LoadArray(redis))
    /\ \A t \in Tasks :
         /\ IsSorted(tasks[t].array)
         /\ (tasks[t].op = "array" /\ tasks[t].pc = "done" /\ tasks[t].status = 200)
               => (IsSorted(tasks[t].ret.array)
                     /\ tasks[t].ret.is_sorted = ArgBool(TRUE))
C3_Witness ==
    /\ tasks["t1"].op = "array" /\ tasks["t1"].pc = "done"
    /\ tasks["t1"].status = 200
    /\ tasks["t1"].ret.size = DefaultSize
    /\ tasks["t1"].ret.min_value.given /\ tasks["t1"].ret.max_value.given
    /\ tasks["t1"].ret.min_value.v < tasks["t1"].ret.max_value.v
    /\ tasks["t2"].op = "reset" /\ tasks["t2"].pc = "done" /\ tasks["t2"].status = 200
    /\ Len(LoadArray(redis)) = ResetSize

\* C4: an initialize_array() whose load finds an array in the store returns
\* that array and leaves both store keys as they were, whichever operation
\* wrote them; so two such calls in a row return the same array.
C4_InitializeKeepsExistingData ==
    [][\A t \in Tasks :
          (/\ tasks[t].pc = "init_load"
           /\ tasks'[t].pc \notin { "init_load", "idle" }
           /\ LoadArray(redis) # << >>)
          => /\ tasks'[t].pc \in { "done", "src_load" }
             /\ tasks'[t].array = LoadArray(redis)
             /\ redis' = redis]_vars
C4_Witness ==
    /\ tasks["t1"].op = "startup" /\ tasks["t1"].pc = "done"
    /\ tasks["t1"].ret.array = LoadArray(redis)
    /\ ArraySource(LoadArrayMetadata(redis)) = "regenerated"
C4_WitnessGenerated ==
    /\ tasks["t1"].op = "startup" /\ tasks["t1"].pc = "done"
    /\ tasks["t1"].ret.array = LoadArray(redis)
    /\ ArraySource(LoadArrayMetadata(redis)) = "generated"
    /\ budget < MaxSeqEvents

\* C5: the source GET /array answers is the stored metadata's source tag
\* when metadata is stored, "unknown" when only the array is stored, and
\* "generated" when neither is stored.
C5_SourceOfStoredData ==
    LET r == tasks["t1"]
        specified ==
            IF redis.metadata # NoText
            THEN DictGet(LoadArrayMetadata(redis), "source", StrVal("unknown")).s
            ELSE IF redis.array # NoText THEN "unknown" ELSE "generated"
    IN (r.op = "array" /\ r.pc = "done" /\ r.status = 200)
          => r.ret.source = specified

\* C6: a reset called with a min_value and a max_value such that
\* min_value >= max_value, zero included, is answered with the ValueError
\* and has generated and stored nothing.
C6_InvalidRangeRejected ==
    LET r == tasks["t1"] IN
    (/\ r.op = "reset"
     /\ r.params.min_value.given /\ r.params.max_value.given
     /\ r.params.min_value.v >= r.params.max_value.v)
       => (r.pc = "done" /\ r.status = 400 /\ r.array = << >>)

\* C7: the store never holds an array without metadata describing it
\* (metadata.size is the array's length), and the metadata a GET /array is
\* about to read describes the array it has read.
C7_ArrayAndMetadataAtomic ==
    /\ redis.array # NoText =>
          /\ redis.metadata # NoText
          /\ DictGet(LoadArrayMetadata(redis), "size", IntVal(0 - 1)).n
                = Len(LoadArray(redis))
    /\ \A t \in Tasks :
          tasks[t].pc = "src_load" =>
             /\ redis.metadata # NoText
             /\ DictGet(LoadArrayMetadata(redis), "size", IntVal(0 - 1)).n
                   = Len(tasks[t].array)

\* C8: when a reset that ran alone has answered 200, the stored array is the
\* array generated for the effective parameters, with the effective size
\* and every element within the effective bounds, and the stored metadata
\* carries source "regenerated" and the effective size, bounds and seed.
C8_ResetReplacesStore ==
    LET r == tasks["t1"] IN
    (r.op = "reset" /\ r.pc = "done" /\ r.status = 200) =>
        LET p == r.params
            size == OrElse(p.size, array_size)
            lo == OrElse(p.min_value, min_value)
            hi == OrElse(p.max_value, max_value)
            sd == OrElse(p.seed, seed)
            stored == LoadArray(redis)
            meta == LoadArrayMetadata(redis)
        IN /\ stored = r.array
           /\ stored = Sorted(RandInts(RngSeed(sd), size, lo, hi).vals)
           /\ Len(stored) = size
           /\ \A i \in 1..Len(stored) : lo <= stored[i] /\ stored[i] <= hi
           /\ DictGet(meta, "source", StrVal("")) = StrVal("regenerated")
           /\ DictGet(meta, "size", IntVal(0 - 1)) = IntVal(size)
           /\ DictGet(meta, "min_value", IntVal(0 - 1)) = IntVal(lo)
           /\ DictGet(meta, "max_value", IntVal(0 - 1)) = IntVal(hi)
           /\ DictGet(meta, "seed", IntVal(0 - 1)) = IntVal(sd)
C8_Witness ==
    /\ tasks["t1"].op = "reset" /\ tasks["t1"].pc = "done"
    /\ tasks["t1"].status = 200
    /\ tasks["t1"].params.size = Arg(ResetSize)
    /\ tasks["t1"].params.seed = Arg(ResetSeed)
    /\ Len(LoadArray(redis)) = ResetSize
    /\ budget = 0

\* C9: after n recorded searches the timing window holds the elapsed times
\* of the most recent min(n, 1000) of them, oldest first, so it is never
\* longer than 1000, and the average of a snapshot is the sum of exactly
\* those samples over their number.
C9_WindowIsMostRecent ==
    LET n == search_stats.total_searches
        m == IF n < WindowLimit THEN n ELSE WindowLimit
        recent == [i \in 1..m |-> WorkloadItem(workload, n - m + i).ms]
    IN workload # NoWorkload =>
        /\ Len(search_stats.search_times) <= WindowLimit
        /\ search_stats.search_times = recent
        /\ snapshot # NoRet =>
              /\ snapshot.search_times = recent
              /\ snapshot.average_search_time_ms =
                    IF m = 0 THEN [num |-> 0, den |-> 1]
                    ELSE [num |-> Sum(recent), den |-> m]
C9_Witness ==
    /\ workload # NoWorkload
    /\ search_stats.total_searches > WindowLimit + 1
    /\ Len(search_stats.search_times) = WindowLimit
    /\ snapshot # NoRet
    /\ snapshot.total_searches = search_stats.total_searches

\* C10 as stated: after a reset that answered 200, a search for the first
\* element of the array answers found = true with index = 0, duplicates of
\* the smallest value or not.
C10_FirstElementAtIndexZero ==
    LET r == tasks["t1"] IN
    (/\ r.op = "search" /\ r.pc = "done" /\ r.status = 200
     /\ ArraySource(LoadArrayMetadata(redis)) = "regenerated"
     /\ r.value = At(r.array, 0))
       => (r.ret.found /\ r.ret.index = 0)

\* C10 amended: after a reset that answered 200, a search for the first
\* element of the array answers found = true with an index at which the
\* array holds that value; the index is 0 when the smallest value occurs
\* once.
C10_FirstElementFound ==
    LET r == tasks["t1"] IN
    (/\ r.op = "search" /\ r.pc = "done" /\ r.status = 200
     /\ ArraySource(LoadArrayMetadata(redis)) = "regenerated"
     /\ r.value = At(r.array, 0))
       => /\ r.ret.found
          /\ 0 <= r.ret.index /\ r.ret.index < Len(r.array)
          /\ At(r.array, r.ret.index) = At(r.array, 0)
          /\ (Len(r.array) = 1 \/ At(r.array, 0) < At(r.array, 1))
                => r.ret.index = 0
C10_Witness ==
    /\ tasks["t1"].op = "search" /\ tasks["t1"].pc = "done"
    /\ tasks["t1"].status = 200
    /\ ArraySource(LoadArrayMetadata(redis)) = "regenerated"
    /\ tasks["t1"].array = LoadArray(redis)
    /\ tasks["t1"].value = At(tasks["t1"].array, 0)
    /\ At(tasks["t1"].array, 0) = At(tasks["t1"].array, 1)
    /\ tasks["t1"].ret.found
    /\ tasks["t1"].ret.index > 0

\* C11: a restart leaves the store as it was, returns the manager's fields
\* to 100 / 1 / 1000 / 42 and empties the statistics; afterwards every
\* initialize_array() and get_array() whose load finds the stored array
\* returns it without writing to the store, and get_array_source() answers
\* the source tag of the stored metadata without writing to the store.
C11_StateSurvivesRestart ==
    [][/\ (\E withStartup \in BOOLEAN : Restart(withStartup)) =>
             /\ redis' = redis
             /\ array_size' = DefaultSize /\ min_value' = DefaultMin
             /\ max_value' = DefaultMax /\ seed' = DefaultSeed
             /\ search_stats'.total_searches = 0
             /\ search_stats'.successful_searches = 0
             /\ search_stats'.failed_searches = 0
             /\ search_stats'.search_times = << >>
             /\ search_stats'.value_counts = EmptyDict
             /\ search_stats'.daily_counts = EmptyDict
       /\ \A t \in Tasks :
             /\ (/\ tasks[t].pc \in { "init_load", "ga_load" }
                 /\ tasks'[t].pc \notin { "init_load", "ga_load", "idle" }
                 /\ redis.array # NoText /\ redis.metadata # NoText)
                => /\ tasks'[t].pc \in { "done", "src_load" }
                   /\ tasks'[t].array = LoadArray(redis)
                   /\ redis' = redis
             /\ (/\ tasks[t].pc = "src_load" /\ tasks'[t].pc = "done"
                 /\ redis.array # NoText /\ redis.metadata # NoText)
                => /\ tasks'[t].ret.array = tasks[t].array
                   /\ StrVal(tasks'[t].ret.source)
                         = DictGet(LoadArrayMetadata(redis), "source", StrVal(""))
                   /\ redis' = redis]_vars
\* A reset shrank the array, the process was restarted (the manager's size
\* is 100 again), and GET /array still answers the reset's array and tag.
C11_Witness ==
    /\ tasks["t1"].op = "array" /\ tasks["t1"].pc = "done"
    /\ tasks["t1"].status = 200
    /\ tasks["t1"].ret.source = "regenerated"
    /\ tasks["t1"].ret.size = ResetSize
    /\ tasks["t1"].ret.array = LoadArray(redis)
    /\ array_size = DefaultSize
    /\ search_stats = EmptyStats

\* Calls of _generate_array with all four arguments supplied.
ExplicitParams ==
    [size : { Arg(0), Arg(ResetSize) },
     min_value : { Arg(x) : x \in 0..1 },
     max_value : { Arg(ResetMaxVal) },
     seed : { Arg(0), Arg(ResetSeed) }]

\* The manager's fields as the constructor sets them.
FreshDefaults ==
    [array_size |-> DefaultSize, min_value |-> DefaultMin,
     max_value |-> DefaultMax, seed |-> DefaultSeed]

\* C12: _generate_array called with four supplied arguments returns the
\* same array (or raises alike) in every state the service reaches as it
\* does on a fresh service: the result depends on the arguments alone.
C12_GenerationDependsOnArgumentsOnly ==
    \A p \in ExplicitParams :
        LET here == GenerateArray(Defaults, p, rng_state)
            fresh == GenerateArray(FreshDefaults, p, RngUnseeded)
        IN here.ok = fresh.ok /\ here.array = fresh.array

\* C13: every record step adds 1 to total_searches and 1 to exactly one of
\* successful_searches (a hit) and failed_searches (a miss), no counter
\* ever decreases, and in every state total = successful + failed = the sum
\* of the per-value counts = the sum of the per-day counts.
C13_CountersAgree ==
    /\ [](/\ search_stats.total_searches
                = search_stats.successful_searches + search_stats.failed_searches
          /\ search_stats.total_searches
                = Sum([i \in 1..Len(search_stats.value_counts) |->
                          search_stats.value_counts[i].val])
          /\ search_stats.total_searches
                = Sum([i \in 1..Len(search_stats.daily_counts) |->
                          search_stats.daily_counts[i].val]))
    /\ [][/\ search_stats'.total_searches >= search_stats.total_searches
          /\ search_stats'.successful_searches >= search_stats.successful_searches
          /\ search_stats'.failed_searches >= search_stats.failed_searches
          /\ search_stats' # search_stats =>
                LET it == WorkloadItem(workload, search_stats.total_searches + 1) IN
                /\ search_stats'.total_searches = search_stats.total_searches + 1
                /\ search_stats'.successful_searches =
                      search_stats.successful_searches + (IF it.found THEN 1 ELSE 0)
                /\ search_stats'.failed_searches =
                      search_stats.failed_searches + (IF it.found THEN 0 ELSE 1)]_vars
\* One miss then one hit: total 2, successful 1, failed 1.
C13_Witness ==
    /\ workload # NoWorkload
    /\ search_stats.total_searches = 2
    /\ search_stats.successful_searches = 1
    /\ search_stats.failed_searches = 1
    /\ Len(search_stats.value_counts) = 2

\* C14: every GET /array is answered with a non-empty array, which the
\* store then holds, and with a size equal to the array's length; an array
\* generated by initialize_array() from unmodified defaults has 100
\* elements, all within 1..1000.
C14_GetArrayAlwaysAnswers ==
    LET r == tasks["t1"] IN
    (r.op = "array" /\ r.pc = "done") =>
        /\ r.status = 200
        /\ r.ret.array # << >>
        /\ r.ret.size = Len(r.ret.array)
        /\ LoadArray(redis) = r.ret.array
        /\ (Defaults = FreshDefaults /\ r.ret.source = "generated") =>
              /\ r.ret.size = DefaultSize
              /\ \A i \in 1..Len(r.ret.array) :
                    DefaultMin <= r.ret.array[i] /\ r.ret.array[i] <= DefaultMax

\* C15: once search() has produced its outcome, POST /search is answered
\* with that outcome (found, index, value, array size, minimum, maximum)
\* whether or not the record step raises.
C15_RecordFailureKeepsOutcome ==
    probe.status # 0 =>
        /\ probe.status = 200
        /\ probe.answer # NoRet
        /\ probe.answer.found = probe.trace.outcome.found
        /\ probe.answer.index = probe.trace.outcome.index
        /\ probe.answer.value = probe.value
        /\ probe.answer.array_size = Len(probe.array)
        /\ probe.answer.array_min = At(probe.array, 0)
        /\ probe.answer.array_max = Last(probe.array)

\* C16: get_statistics() changes no counter, window or mapping; its
\* average is 0 for an empty window, its most_searched_value is a recorded
\* value whose count no other recorded value exceeds (none when nothing is
\* recorded), and its searches_today is the daily mapping's entry for the
\* current day, or 0 without one.
C16_SnapshotReadOnly ==
    /\ [](snapshot # NoRet =>
            LET counts == search_stats.value_counts
                days == search_stats.daily_counts
            IN /\ snapshot.total_searches = search_stats.total_searches
               /\ snapshot.successful_searches = search_stats.successful_searches
               /\ snapshot.failed_searches = search_stats.failed_searches
               /\ search_stats.search_times = << >> =>
                     snapshot.average_search_time_ms = [num |-> 0, den |-> 1]
               /\ IF counts = EmptyDict
                  THEN snapshot.most_searched_value = NoArg
                  ELSE /\ snapshot.most_searched_value.given
                       /\ \E i \in 1..Len(counts) :
                             /\ counts[i].key = snapshot.most_searched_value.v
                             /\ \A j \in 1..Len(counts) :
                                   counts[j].val <= counts[i].val
               /\ snapshot.searches_today =
                     IF \E i \in 1..Len(days) : days[i].key = IsoDate(today)
                     THEN days[CHOOSE i \in 1..Len(days) :
                                  days[i].key = IsoDate(today)].val
                     ELSE 0)
    /\ [][(snapshot' # snapshot /\ snapshot' # NoRet)
             => search_stats' = search_stats]_vars
\* A snapshot taken after midnight, before the new day's first search, with
\* two values recorded unequally often.
C16_Witness ==
    /\ workload # NoWorkload
    /\ snapshot # NoRet
    /\ snapshot.searches_today = 0
    /\ search_stats.total_searches = WindowLimit
    /\ Len(search_stats.value_counts) = 2
    /\ snapshot.most_searched_value.given
C16_WitnessEmpty ==
    /\ workload # NoWorkload
    /\ snapshot # NoRet
    /\ search_stats.total_searches = 0
    /\ snapshot.most_searched_value = NoArg
    /\ snapshot.average_search_time_ms = [num |-> 0, den |-> 1]

\* C17: is_connected() answers True exactly when a client exists and its
\* ping returns, and False without a client or when the ping raises or
\* times out; GET /health answers 200 healthy exactly when is_connected()
\* answered True, and 503 otherwise.
C17_HealthFollowsPing ==
    LET r == tasks["t1"] IN
    (r.op = "health" /\ r.pc = "done") =>
        /\ r.connected <=> (r.had_client /\ r.ping = "pong")
        /\ r.status = 200 <=> r.connected
        /\ r.status = 503 <=> ~r.connected
        /\ r.connected => (r.ret.status = "healthy" /\ r.ret.redis_connected)
C17_Witness ==
    /\ tasks["t1"].op = "health" /\ tasks["t1"].pc = "done"
    /\ tasks["t1"].had_client /\ tasks["t1"].ping = "timeout"
    /\ tasks["t1"].status = 503
C17_WitnessHealthy ==
    /\ tasks["t1"].op = "health" /\ tasks["t1"].pc = "done"
    /\ tasks["t1"].status = 200
C17_WitnessNoClient ==
    /\ tasks["t1"].op = "health" /\ tasks["t1"].pc = "done"
    /\ ~tasks["t1"].had_client /\ tasks["t1"].status = 503

\* C18: within one process lifetime, every step in which a search request
\* returns 200 adds exactly 1 to total_searches, to successful + failed and
\* to the count of the value it searched, in that same step, and no other
\* step changes the statistics; so N interleaved searches that have all
\* returned leave every count grown by exactly its share of N.
C18_NoLostStatisticsUpdate ==
    /\ [](Cardinality({ t \in Tasks : /\ tasks[t].op = "search"
                                      /\ tasks[t].pc = "done"
                                      /\ tasks[t].status = 200 })
             <= search_stats.total_searches)
    /\ [][LET returned == { t \in Tasks : /\ tasks[t].op = "search"
                                         /\ tasks[t].pc # "done"
                                         /\ tasks'[t].op = "search"
                                         /\ tasks'[t].pc = "done"
                                         /\ tasks'[t].status = 200 }
              Count(stats, v) == DictGet(stats.value_counts, v, 0)
          IN ~(\E withStartup \in BOOLEAN : Restart(withStartup)) =>
               /\ Cardinality(returned) <= 1
               /\ search_stats'.total_searches =
                     search_stats.total_searches + Cardinality(returned)
               /\ search_stats'.successful_searches + search_stats'.failed_searches =
                     search_stats.successful_searches + search_stats.failed_searches
                        + Cardinality(returned)
               /\ \A t \in returned :
                     Count(search_stats', tasks[t].value) =
                        Count(search_stats, tasks[t].value) + 1
               /\ \A i \in 1..Len(search_stats.value_counts) :
                     LET v == search_stats.value_counts[i].key IN
                     (\A t \in returned : tasks[t].value # v) =>
                        Count(search_stats', v) = Count(search_stats, v)]_vars
\* Two searches for the same value, one on each coroutine, have both
\* returned: the value's count is 2.
C18_Witness ==
    /\ \A t \in Tasks : /\ tasks[t].op = "search" /\ tasks[t].pc = "done"
                        /\ tasks[t].status = 200
    /\ tasks["t1"].value = tasks["t2"].value
    /\ budget = MaxEvents - 2
    /\ search_stats.total_searches = 2
    /\ DictGet(search_stats.value_counts, tasks["t1"].value, 0) = 2

\* C19: once a reset has written its array and its metadata (the stored
\* source is "regenerated"), no write of an initialize_array(), called at
\* startup or by get_array(), replaces the stored array or turns the
\* stored source back to "generated".
C19_InitializeNeverOverwritesReset ==
    [][((\E t \in Tasks : /\ tasks[t].pc \in { "init_save", "init_meta" }
                          /\ tasks'[t].pc # tasks[t].pc)
        /\ ArraySource(LoadArrayMetadata(redis)) = "regenerated")
       => /\ redis'.array = redis.array
          /\ ArraySource(LoadArrayMetadata(redis')) = "regenerated"]_vars

\* C20: a reset that fails leaves the manager's size, bounds and seed and
\* both store keys exactly as they were before the call.
C20_FailedResetChangesNothing ==
    [][\A t \in Tasks :
          (/\ tasks'[t] # tasks[t]
           /\ tasks'[t].op = "reset" /\ tasks'[t].pc = "done"
           /\ tasks'[t].status # 200)
          => /\ array_size' = array_size /\ min_value' = min_value
             /\ max_value' = max_value /\ seed' = seed
             /\ redis' = redis]_vars

\* C21: a reset sets each of the manager's size, minimum, maximum and seed
\* to the argument when the argument is supplied and not 0, and leaves it
\* alone when the argument is absent or 0; the array it stores is generated
\* from the manager's fields as they then stand, which are also what the
\* metadata records, and a later reset without arguments, or a later
\* initialize_array() that finds the store empty, generates from the same
\* fields.
C21_ResetUpdatesTruthyDefaultsOnly ==
    /\ [][\A t \in Tasks :
             (tasks'[t] # tasks[t] /\ tasks'[t].op = "reset"
                 /\ tasks'[t].pc \in { "reset_save", "done" }
                 /\ tasks[t].pc \in { "idle", "done" }) =>
                LET p == tasks'[t].params
                    Kept(arg, old, new) ==
                        IF arg.given /\ arg.v # 0 THEN new = arg.v ELSE new = old
                IN /\ Kept(p.size, array_size, array_size')
                   /\ Kept(p.min_value, min_value, min_value')
                   /\ Kept(p.max_value, max_value, max_value')
                   /\ Kept(p.seed, seed, seed')]_vars
    /\ [][\A t \in Tasks :
             (tasks[t].pc = "init_load" /\ tasks'[t].pc = "init_save") =>
                /\ tasks'[t].array =
                      Sorted(RandInts(RngSeed(seed), array_size,
                                      min_value, max_value).vals)
                /\ UNCHANGED mgrVars]_vars
    /\ [](LET r == tasks["t1"] IN
          (r.op = "reset" /\ r.pc = "done" /\ r.status = 200) =>
             LET meta == LoadArrayMetadata(redis) IN
             /\ LoadArray(redis) =
                   Sorted(RandInts(RngSeed(seed), array_size, min_value, max_value).vals)
             /\ DictGet(meta, "size", IntVal(0 - 1)) = IntVal(array_size)
             /\ DictGet(meta, "min_value", IntVal(0 - 1)) = IntVal(min_value)
             /\ DictGet(meta, "max_value", IntVal(0 - 1)) = IntVal(max_value)
             /\ DictGet(meta, "seed", IntVal(0 - 1)) = IntVal(seed))
\* A reset without arguments after a reset that set the size and the seed.
C21_Witness ==
    /\ tasks["t1"].op = "reset" /\ tasks["t1"].pc = "done"
    /\ tasks["t1"].status = 200
    /\ tasks["t1"].params = NoParams
    /\ array_size = ResetSize /\ seed = ResetSeed
    /\ Len(LoadArray(redis)) = ResetSize
\* A reset set the size and the seed, the store was cleared, and GET /array
\* has answered with an array generated from the size the reset set.
C21_WitnessLazy ==
    /\ tasks["t1"].op = "array" /\ tasks["t1"].pc = "done"
    /\ tasks["t1"].status = 200
    /\ tasks["t1"].ret.source = "generated"
    /\ array_size = ResetSize /\ seed = ResetSeed
    /\ tasks["t1"].ret.size = ResetSize
    /\ tasks["t1"].ret.array = LoadArray(redis)
\* A reset given 0 as its minimum: the manager's minimum is unchanged.
C21_WitnessZero ==
    /\ tasks["t1"].op = "reset" /\ tasks["t1"].pc = "done"
    /\ tasks["t1"].status = 200
    /\ tasks["t1"].params.min_value = Arg(0)
    /\ tasks["t1"].params.max_value = Arg(ResetMaxVal)
    /\ min_value = DefaultMin /\ max_value = ResetMaxVal

\* C22: for every non-empty sorted array and every target, search() with
\* its out-of-range early exit answers the same found flag and index as the
\* loop of _binary_search run alone; the loop alone answers -1 for a target
\* below the first or above the last element, and ends within Len(array)
\* iterations.
C22_PrecheckIsOptimisation ==
    probe.done =>
        LET alone == BinarySearchTrace(probe.array, probe.value) IN
        /\ probe.trace.outcome.index = alone.index
        /\ probe.trace.outcome.found = (alone.index # -1)
        /\ alone.probes <= Len(probe.array)
        /\ probe.trace.probes <= alone.probes
        /\ (probe.value < At(probe.array, 0) \/ probe.value > Last(probe.array))
              => alone.index = -1
\* A target below the first element: the early exit answers at once, the
\* loop alone needs more than one iteration to answer -1.
C22_Witness ==
    /\ probe.done
    /\ Len(probe.array) = MaxLen
    /\ probe.value < At(probe.array, 0)
    /\ probe.trace.probes = 0
    /\ BinarySearchTrace(probe.array, probe.value).probes > 1
    /\ BinarySearchTrace(probe.array, probe.value).index = -1

\* C23: every search that returns has computed its answer on one array S,
\* the array the store returned to it or the array its own initialize
\* generated: array_size, array_min and array_max are those of S, found
\* says whether the value occurs in S, and a found index is a position of S
\* holding the value, whatever resets ran meanwhile.
C23_SearchUsesOneSnapshot ==
    /\ [](\A t \in Tasks :
            (tasks[t].op = "search" /\ tasks[t].pc = "done" /\ tasks[t].status = 200) =>
               LET S == tasks[t].array
                   r == tasks[t].ret
               IN /\ S # << >>
                  /\ r.value = tasks[t].value
                  /\ r.array_size = Len(S)
                  /\ r.array_min = At(S, 0)
                  /\ r.array_max = Last(S)
                  /\ r.found <=> Occurs(S, r.value)
                  /\ r.found => (0 <= r.index /\ r.index < Len(S)
                                   /\ At(S, r.index) = r.value)
                  /\ ~r.found => r.index = -1)
    /\ [][\A t \in Tasks :
             (/\ tasks[t].op = "search" /\ tasks[t].pc # "done"
              /\ tasks'[t].op = "search" /\ tasks'[t].pc = "done"
              /\ tasks'[t].status = 200) =>
                \/ /\ tasks[t].pc \in { "ga_load", "init_load" }
                   /\ tasks'[t].array = LoadArray(redis)
                \/ /\ tasks[t].pc = "init_meta"
                   /\ tasks'[t].array = tasks[t].array]_vars
\* A search has returned an answer about the array its own initialize
\* generated, while a reset running meanwhile has put another array in the
\* store.
C23_Witness ==
    /\ tasks["t1"].op = "search" /\ tasks["t1"].pc = "done"
    /\ tasks["t1"].status = 200
    /\ tasks["t2"].op = "reset" /\ tasks["t2"].pc = "done"
    /\ tasks["t2"].status = 200
    /\ Len(LoadArray(redis)) = ResetSize
    /\ Len(tasks["t1"].array) = DefaultSize
    /\ tasks["t1"].ret.array_size = DefaultSize

====
